---- MODULE Spec2Model ----
(***************************************************************************)
(* Model of the byte-reader crate: the line/column resolver of src/lib.rs  *)
(* (get_lines_and_columns, compute_location, count_linebreaks and the      *)
(* backward UTF-8 helpers) and the Cursor of src/cursor.rs.                *)
(* Indices are 0-based as in the source; At(b, i) reads b[i].              *)
(***************************************************************************)
EXTENDS Integers, Naturals, Sequences, FiniteSets, TLC

\* ------------------------------------------------------------------ bounds
MaxLen == 3
MaxLocLen == 4
MaxSteps == 2 * MaxLocLen + 4
MaxTail == 3
MaxPeek == 2

\* ------------------------------------------------------------- byte values
LF == 10
CR == 13

\* Representative bytes: ASCII letter, LF, CR, a continuation byte, a 2-, 3-
\* and 4-byte lead and a byte the width table rejects.
Alphabet == {65, LF, CR, 128, 194, 226, 241, 245}

RECURSIVE SeqsUpTo(_, _)
SeqsUpTo(S, n) ==
    IF n = 0 THEN {<<>>}
    ELSE LET shorter == SeqsUpTo(S, n - 1)
         IN  shorter \cup {Append(s, x) : s \in {t \in shorter : Len(t) = n - 1}, x \in S}

\* "A\r\nB\nC\rD", the text of the next_lfn test and of the spec's example
ExampleText == <<65, CR, LF, 66, LF, 67, CR, 68>>

\* seventeen distinct bytes, enough for a 128-bit read at offsets 0 and 1
NumText == <<1, 2, 3, 4, 5, 6, 7, 8, 9, 10, 11, 12, 13, 14, 15, 16, 17>>

Buffers == SeqsUpTo(Alphabet, MaxLocLen) \cup {ExampleText}

Slices == SeqsUpTo(Alphabet, MaxLen) \cup {ExampleText, NumText}

At(b, i) == b[i + 1]

None == [some |-> FALSE, val |-> 0]
Some(x) == [some |-> TRUE, val |-> x]

\* ------------------------------------------------------ u8 bit arithmetic
RECURSIVE Pow2(_)
Pow2(n) == IF n = 0 THEN 1 ELSE 2 * Pow2(n - 1)

\* x << n on a u8: bits shifted out of the byte are dropped
Shl8(x, n) == (x * Pow2(n)) % 256

RECURSIVE BitAnd(_, _, _)
BitAnd(x, y, n) ==
    IF n = 0 THEN 0
    ELSE (IF x % 2 = 1 /\ y % 2 = 1 THEN 1 ELSE 0) + 2 * BitAnd(x \div 2, y \div 2, n - 1)

And8(x, y) == BitAnd(x, y, 8)

VARIABLES bytes, offset, pc, index, inline_offset, count, cindex, result, fault, steps,
          slice, cursor, op, arg, ret, before

locVars == <<bytes, offset, pc, index, inline_offset, count, cindex, result, fault, steps>>
curVars == <<slice, cursor, op, arg, ret, before>>
vars == <<bytes, offset, pc, index, inline_offset, count, cindex, result, fault, steps,
          slice, cursor, op, arg, ret, before>>

\* ============================================================ src/lib.rs

\* mask_utf8_byte::<N>(bytes, index): the assertion on N, then bytes[index - (N-1)] & mask
mask_utf8_byte(N, b, i) ==
    IF ~(N >= 2 /\ N < 4)
    THEN [panic |-> TRUE, opt |-> None]
    ELSE LET mask == Shl8(Shl8(2, N) - 1, 8 - N)
         IN  IF i - (N - 1) < 0 \/ i - (N - 1) >= Len(b)
             THEN [panic |-> FALSE, opt |-> None]
             ELSE [panic |-> FALSE, opt |-> Some(And8(At(b, i - (N - 1)), mask))]

\* compute_utf8_bytes_len(bytes, &mut index): the index after the call, or a panic
compute_utf8_bytes_len(b, i) ==
    LET m2 == mask_utf8_byte(2, b, i)
        m3 == mask_utf8_byte(3, b, i)
        m4 == mask_utf8_byte(4, b, i)
    IN  IF m2.panic THEN [panic |-> TRUE, index |-> i]
        ELSE IF m2.opt = Some(192) THEN [panic |-> FALSE, index |-> i - 1]
        ELSE IF ~(m2.opt \in {Some(128), Some(160)}) THEN [panic |-> FALSE, index |-> i]
        ELSE IF m3.panic THEN [panic |-> TRUE, index |-> i]
        \* the source's literal is 0b1110_000, seven binary digits
        ELSE IF m3.opt = Some(112) THEN [panic |-> FALSE, index |-> i - 2]
        ELSE IF ~(m3.opt \in {Some(128), Some(144), Some(160), Some(176)})
             THEN [panic |-> FALSE, index |-> i]
        ELSE IF m4.panic THEN [panic |-> TRUE, index |-> i]
        ELSE IF m4.opt = Some(240) THEN [panic |-> FALSE, index |-> i - 3]
        ELSE [panic |-> FALSE, index |-> i]

\* get_lines_and_columns / compute_location entry: the assertion and the two `let mut`
compute_location ==
    /\ pc = "call"
    /\ IF ~(Len(bytes) >= offset)
       THEN /\ pc' = "panic"
            /\ fault' = "assert_offset"
            /\ UNCHANGED <<index, inline_offset>>
       ELSE /\ pc' = "scan"
            /\ index' = offset
            /\ inline_offset' = 0
            /\ UNCHANGED fault
    /\ UNCHANGED <<bytes, offset, count, cindex, result, steps>>
    /\ UNCHANGED curVars

\* one iteration of the backward loop of compute_location; steps counts the
\* loop iterations of the call that ran to their end
scan_step ==
    /\ pc = "scan"
    /\ steps < MaxSteps
    /\ IF index = 0
       THEN \* index -= 1 underflows (debug: overflow panic; release: bytes[usize::MAX])
            /\ pc' = "panic"
            /\ fault' = "index_underflow"
            /\ UNCHANGED <<index, inline_offset, count, cindex, result, steps>>
       ELSE LET i == index - 1
                byte == At(bytes, i)
                r == IF byte >= 128 /\ byte <= 191
                     THEN compute_utf8_bytes_len(bytes, i)
                     ELSE [panic |-> FALSE, index |-> i]
            IN  IF byte = LF \/ byte = CR
                THEN /\ pc' = "count"
                     /\ index' = i
                     /\ count' = 0
                     /\ cindex' = 0
                     /\ steps' = steps + 1
                     /\ UNCHANGED <<inline_offset, result, fault>>
                ELSE IF r.panic
                THEN /\ pc' = "panic"
                     /\ fault' = "assert_mask"
                     /\ UNCHANGED <<index, inline_offset, count, cindex, result, steps>>
                ELSE /\ index' = r.index
                     /\ inline_offset' = inline_offset + 1
                     /\ steps' = steps + 1
                     /\ IF r.index = 0
                        THEN /\ pc' = "done"
                             /\ result' = <<0, inline_offset + 1>>
                        ELSE /\ pc' = "scan"
                             /\ UNCHANGED result
                     /\ UNCHANGED <<count, cindex, fault>>
    /\ UNCHANGED <<bytes, offset>>
    /\ UNCHANGED curVars

\* count_linebreaks(&bytes[0..=index]): one test of the while condition and,
\* when it holds, one run of the loop body; the return when it does not
count_linebreaks ==
    /\ pc = "count"
    /\ LET prefixLen == index + 1
       IN  IF cindex < prefixLen
           THEN /\ steps < MaxSteps
                /\ steps' = steps + 1
                /\ IF At(bytes, cindex) = CR
                   THEN /\ count' = count + 1
                        /\ cindex' = cindex + (IF cindex + 1 < prefixLen /\ At(bytes, cindex + 1) = LF
                                               THEN 2 ELSE 1)
                   ELSE IF At(bytes, cindex) = LF
                   THEN /\ count' = count + 1
                        /\ UNCHANGED cindex
                   ELSE UNCHANGED <<count, cindex>>
                /\ UNCHANGED <<pc, result>>
           ELSE /\ pc' = "done"
                /\ result' = <<count, inline_offset>>
                /\ UNCHANGED <<count, cindex, steps>>
    /\ UNCHANGED <<bytes, offset, index, inline_offset, fault>>
    /\ UNCHANGED curVars

InitLoc ==
    /\ bytes \in Buffers
    /\ offset \in 0..(Len(bytes) + 1)
    /\ pc = "call"
    /\ index = 0
    /\ inline_offset = 0
    /\ count = 0
    /\ cindex = 0
    /\ result = <<0, 0>>
    /\ fault = "none"
    /\ steps = 0
    /\ slice = <<>>
    /\ cursor = 0
    /\ op = "new"
    /\ arg = 0
    /\ ret = None
    /\ before = 0

NextLoc == compute_location \/ scan_step \/ count_linebreaks

SpecLoc == InitLoc /\ [][NextLoc]_vars

\* ========================================================= src/cursor.rs
\* A Cursor over `slice`: start is offset 0, `cursor` the offset of the next
\* byte, end the offset Len(slice).  The operators take the slice and the
\* cursor offset and give the returned value and the cursor afterwards.

UTF8_CHAR_WIDTH == <<
    1, 1, 1, 1, 1, 1, 1, 1, 1, 1, 1, 1, 1, 1, 1, 1,
    1, 1, 1, 1, 1, 1, 1, 1, 1, 1, 1, 1, 1, 1, 1, 1,
    1, 1, 1, 1, 1, 1, 1, 1, 1, 1, 1, 1, 1, 1, 1, 1,
    1, 1, 1, 1, 1, 1, 1, 1, 1, 1, 1, 1, 1, 1, 1, 1,
    1, 1, 1, 1, 1, 1, 1, 1, 1, 1, 1, 1, 1, 1, 1, 1,
    1, 1, 1, 1, 1, 1, 1, 1, 1, 1, 1, 1, 1, 1, 1, 1,
    1, 1, 1, 1, 1, 1, 1, 1, 1, 1, 1, 1, 1, 1, 1, 1,
    1, 1, 1, 1, 1, 1, 1, 1, 1, 1, 1, 1, 1, 1, 1, 1,
    0, 0, 0, 0, 0, 0, 0, 0, 0, 0, 0, 0, 0, 0, 0, 0,
    0, 0, 0, 0, 0, 0, 0, 0, 0, 0, 0, 0, 0, 0, 0, 0,
    0, 0, 0, 0, 0, 0, 0, 0, 0, 0, 0, 0, 0, 0, 0, 0,
    0, 0, 0, 0, 0, 0, 0, 0, 0, 0, 0, 0, 0, 0, 0, 0,
    0, 0, 2, 2, 2, 2, 2, 2, 2, 2, 2, 2, 2, 2, 2, 2,
    2, 2, 2, 2, 2, 2, 2, 2, 2, 2, 2, 2, 2, 2, 2, 2,
    3, 3, 3, 3, 3, 3, 3, 3, 3, 3, 3, 3, 3, 3, 3, 3,
    4, 4, 4, 4, 4, 0, 0, 0, 0, 0, 0, 0, 0, 0, 0, 0 >>

\* mutant: the 3-byte leads 0xE0-0xEF entered as width 2
char_width_3as2(byte) == IF byte >= 224 /\ byte <= 239 THEN 2 ELSE At(UTF8_CHAR_WIDTH, byte)

\* mutant: the width read off the count of leading one bits alone
char_width_bits(byte) ==
    IF byte < 128 THEN 1
    ELSE IF byte < 192 THEN 0
    ELSE IF byte < 224 THEN 2
    ELSE IF byte < 240 THEN 3
    ELSE IF byte < 248 THEN 4
    ELSE 0

\* UTF8_CHAR_WIDTH[byte as usize]
char_width(byte) == At(UTF8_CHAR_WIDTH, byte)

has_next(s, c) == c < Len(s)

peek_unchecked(s, c) == At(s, c)

advance_unchecked(c) == c + 1

advance_n_unchecked(c, n) == c + n

peek(s, c) == IF ~has_next(s, c) THEN None ELSE Some(peek_unchecked(s, c))

bytes_consumed(s, c) == c - 0

\* (end as usize).saturating_sub(cursor as usize)
bytes_remaining(s, c) == IF Len(s) - c < 0 THEN 0 ELSE Len(s) - c

next(s, c) ==
    IF has_next(s, c)
    THEN [ret |-> Some(peek_unchecked(s, c)), cursor |-> advance_unchecked(c)]
    ELSE [ret |-> None, cursor |-> c]

\* mutant: a CR is mapped to LF but a following LF is left in place
next_lfn_nofold(s, c) ==
    IF peek(s, c) = None THEN [ret |-> None, cursor |-> c]
    ELSE IF peek(s, c) = Some(CR) THEN [ret |-> Some(LF), cursor |-> advance_unchecked(c)]
    ELSE [ret |-> peek(s, c), cursor |-> advance_unchecked(c)]

next_lfn(s, c) ==
    IF peek(s, c) = None THEN [ret |-> None, cursor |-> c]
    ELSE IF peek(s, c) = Some(CR)
    THEN [ret |-> Some(LF),
          cursor |-> IF peek(s, advance_unchecked(c)) = Some(LF)
                     THEN advance_unchecked(c) + 1
                     ELSE advance_unchecked(c)]
    ELSE [ret |-> peek(s, c), cursor |-> advance_unchecked(c)]

\* mutant: advance without the has_next test
advance_nocheck(s, c) == advance_unchecked(c)

advance(s, c) == IF has_next(s, c) THEN advance_unchecked(c) ELSE c

\* u8::is_ascii_whitespace: space, tab, LF, form feed, CR
is_ascii_whitespace(x) == x \in {32, 9, LF, 12, CR}

RECURSIVE skip_ascii_whitespace(_, _)
skip_ascii_whitespace(s, c) ==
    IF peek(s, c) = None THEN c
    ELSE IF ~is_ascii_whitespace(peek(s, c).val) THEN c
    ELSE skip_ascii_whitespace(s, advance_unchecked(c))

\* mutant: only the top bit of the continuation byte is tested
next_cont_topbit(s, c, e, i) ==
    LET r == next_lfn(s, c)
    IN  IF r.ret = None THEN [ok |-> FALSE, ret |-> e, cursor |-> r.cursor]
        ELSE IF And8(r.ret.val, 128) # 128 THEN [ok |-> FALSE, ret |-> i, cursor |-> r.cursor]
        ELSE [ok |-> TRUE, ret |-> "Ok", cursor |-> r.cursor]

\* mutant: a byte that fails the continuation test is peeked, not consumed
next_cont_peek(s, c, e, i) ==
    LET r == next_lfn(s, c)
    IN  IF r.ret = None THEN [ok |-> FALSE, ret |-> e, cursor |-> c]
        ELSE IF And8(r.ret.val, 192) # 128 THEN [ok |-> FALSE, ret |-> i, cursor |-> c]
        ELSE [ok |-> TRUE, ret |-> "Ok", cursor |-> r.cursor]

\* the next!(e, i) macro of advance_char: read one byte with next_lfn and
\* require the continuation pattern 10xxxxxx
next_cont(s, c, e, i) ==
    LET r == next_lfn(s, c)
    IN  IF r.ret = None THEN [ok |-> FALSE, ret |-> e, cursor |-> r.cursor]
        ELSE IF And8(r.ret.val, 192) # 128 THEN [ok |-> FALSE, ret |-> i, cursor |-> r.cursor]
        ELSE [ok |-> TRUE, ret |-> "Ok", cursor |-> r.cursor]

advance_char(s, c) ==
    LET first == next(s, c)
        c1 == first.cursor
        w == char_width(first.ret.val)
    IN  IF first.ret = None THEN [ret |-> "Ok", cursor |-> c]
        ELSE IF w = 0 THEN [ret |-> "EncounteredContinuationByte", cursor |-> c1]
        ELSE IF w = 1
        THEN [ret |-> "Ok",
              cursor |-> IF first.ret.val = CR /\ peek(s, c1) = Some(LF)
                         THEN advance_unchecked(c1) ELSE c1]
        ELSE IF w = 2
        THEN LET n2 == next_cont(s, c1, "Missing2ndOf2", "Invalid2ndOf2")
             IN  [ret |-> n2.ret, cursor |-> n2.cursor]
        ELSE IF w = 3
        THEN LET n2 == next_cont(s, c1, "Missing2ndOf3", "Invalid2ndOf3")
                 n3 == next_cont(s, n2.cursor, "Missing3rdOf3", "Invalid3rdOf3")
             IN  IF ~n2.ok THEN [ret |-> n2.ret, cursor |-> n2.cursor]
                 ELSE [ret |-> n3.ret, cursor |-> n3.cursor]
        ELSE LET n2 == next_cont(s, c1, "Missing2ndOf4", "Invalid2ndOf4")
                 n3 == next_cont(s, n2.cursor, "Missing3rdOf4", "Invalid3rdOf4")
                 n4 == next_cont(s, n3.cursor, "Missing4thOf4", "Invalid4thOf4")
             IN  IF ~n2.ok THEN [ret |-> n2.ret, cursor |-> n2.cursor]
                 ELSE IF ~n3.ok THEN [ret |-> n3.ret, cursor |-> n3.cursor]
                 ELSE [ret |-> n4.ret, cursor |-> n4.cursor]

\* ---- fixed-width numeric reads (impl_read_n!); a value is written as its
\* base-256 digits, most significant first
Sizes == {2, 4, 8, 16}

RECURSIVE Reverse(_)
Reverse(q) == IF q = <<>> THEN <<>> ELSE Append(Reverse(Tail(q)), Head(q))

\* the size bytes at the cursor, in memory order
raw_bytes(s, c, size) == SubSeq(s, c + 1, c + size)

\* $le: T::from_le(read_unaligned)
read_le(s, c, size) ==
    IF bytes_remaining(s, c) < size THEN None ELSE Some(Reverse(raw_bytes(s, c, size)))

\* $be: T::from_be(read_unaligned)
read_be(s, c, size) ==
    IF bytes_remaining(s, c) < size THEN None ELSE Some(raw_bytes(s, c, size))

\* $nle: self.$le().inspect(|_| advance_n_unchecked(size_of::<T>()))
next_le(s, c, size) ==
    [ret |-> read_le(s, c, size),
     cursor |-> IF read_le(s, c, size) = None THEN c ELSE advance_n_unchecked(c, size)]

\* $nbe takes &self: it reads like $be and leaves the cursor where it is
next_be(s, c, size) ==
    [ret |-> IF bytes_remaining(s, c) < size THEN None ELSE Some(raw_bytes(s, c, size)),
     cursor |-> c]

\* ---- one action per checked operation; op, arg, ret and before record the
\* last call, its argument, what it returned and the cursor it started from
Call(name, a, r, c2) ==
    /\ op' = name
    /\ arg' = a
    /\ ret' = r
    /\ before' = cursor
    /\ cursor' = c2
    /\ UNCHANGED slice
    /\ UNCHANGED locVars

DoPeek == Call("peek", 0, peek(slice, cursor), cursor)

\* peek_n(n): cursor.add(n) stays inside the allocation (or one past it) only
\* for cursor + n <= len; beyond that the pointer arithmetic is undefined and
\* the comparison with end may go either way
DoPeekN ==
    \E n \in 0..MaxPeek :
        IF cursor + n < Len(slice)
        THEN Call("peek_n", n, Some(At(slice, cursor + n)), cursor)
        ELSE IF cursor + n = Len(slice)
        THEN Call("peek_n", n, None, cursor)
        ELSE \E r \in {None} \cup {Some(x) : x \in Alphabet} : Call("peek_n", n, r, cursor)

DoHasNext == Call("has_next", 0, Some(has_next(slice, cursor)), cursor)

DoBytesConsumed == Call("bytes_consumed", 0, Some(bytes_consumed(slice, cursor)), cursor)

DoBytesRemaining == Call("bytes_remaining", 0, Some(bytes_remaining(slice, cursor)), cursor)

\* position(): Position::new(self.cursor)
DoPosition == Call("position", 0, Some(cursor), cursor)

DoNext == Call("next", 0, next(slice, cursor).ret, next(slice, cursor).cursor)

DoNextLfn == Call("next_lfn", 0, next_lfn(slice, cursor).ret, next_lfn(slice, cursor).cursor)

DoAdvance == Call("advance", 0, None, advance(slice, cursor))

DoSkipAsciiWhitespace ==
    Call("skip_ascii_whitespace", 0, None, skip_ascii_whitespace(slice, cursor))

DoAdvanceChar ==
    Call("advance_char", 0, Some(advance_char(slice, cursor).ret), advance_char(slice, cursor).cursor)

DoReadLe == \E size \in Sizes : Call("read_le", size, read_le(slice, cursor, size), cursor)

DoReadBe == \E size \in Sizes : Call("read_be", size, read_be(slice, cursor, size), cursor)

DoNextLe ==
    \E size \in Sizes :
        Call("next_le", size, next_le(slice, cursor, size).ret, next_le(slice, cursor, size).cursor)

DoNextBe ==
    \E size \in Sizes :
        Call("next_be", size, next_be(slice, cursor, size).ret, next_be(slice, cursor, size).cursor)

\* Cursor::new(slice): start = cursor = slice.as_ptr(), end = start + len
InitCursor(S) ==
    /\ slice \in S
    /\ cursor = 0
    /\ op = "new"
    /\ arg = 0
    /\ ret = None
    /\ before = 0
    /\ bytes = <<>>
    /\ offset = 0
    /\ pc = "idle"
    /\ index = 0
    /\ inline_offset = 0
    /\ count = 0
    /\ cindex = 0
    /\ result = <<0, 0>>
    /\ fault = "none"
    /\ steps = 0

Init == InitCursor(Slices)

Next ==
    \/ DoPeek
    \/ DoPeekN
    \/ DoHasNext
    \/ DoBytesConsumed
    \/ DoBytesRemaining
    \/ DoPosition
    \/ DoNext
    \/ DoNextLfn
    \/ DoAdvance
    \/ DoSkipAsciiWhitespace
    \/ DoAdvanceChar
    \/ DoReadLe
    \/ DoReadBe
    \/ DoNextLe
    \/ DoNextBe

Spec == Init /\ [][Next]_vars

\* advance_char on every first byte 0..255 followed by up to MaxTail bytes
\* drawn from a continuation byte, a letter, CR, LF and a 2-byte lead
CharSlices == {<<>>} \cup {<<b>> \o t : b \in 0..255, t \in SeqsUpTo({128, 65, CR, LF, 194}, MaxTail)}

InitChar == InitCursor(CharSlices)

NextChar == DoAdvanceChar \/ DoHasNext \/ DoBytesConsumed

SpecChar == InitChar /\ [][NextChar]_vars

\* ------------------------------------------------- resolver: reference notions

IsAsciiText(b) == \A i \in 0..(Len(b) - 1) : At(b, i) < 128

\* offset o falls between the CR and the LF of a CRLF pair
BetweenCRLF(b, o) == o >= 1 /\ o < Len(b) /\ At(b, o - 1) = CR /\ At(b, o) = LF

\* a logical line break (CRLF, lone LF, lone CR) has its last byte at j - 1
BreakEndsAt(b, j) ==
    \/ At(b, j - 1) = LF
    \/ At(b, j - 1) = CR /\ ~(j < Len(b) /\ At(b, j) = LF)

BreakEnds(b, o) == {j \in 1..o : BreakEndsAt(b, j)}

LogicalBreaksBefore(b, o) == Cardinality(BreakEnds(b, o))

LineStart(b, o) ==
    IF BreakEnds(b, o) = {} THEN 0
    ELSE CHOOSE j \in BreakEnds(b, o) : \A k \in BreakEnds(b, o) : k <= j

\* length of the well-formed UTF-8 sequence starting at i (Unicode table 3-7), 0 if none
WellFormedLen(b, i) ==
    LET n == Len(b)
        b0 == At(b, i)
        cont(k, lo, hi) == i + k < n /\ At(b, i + k) >= lo /\ At(b, i + k) <= hi
    IN  IF b0 < 128 THEN 1
        ELSE IF b0 >= 194 /\ b0 <= 223 /\ cont(1, 128, 191) THEN 2
        ELSE IF b0 = 224 /\ cont(1, 160, 191) /\ cont(2, 128, 191) THEN 3
        ELSE IF b0 >= 225 /\ b0 <= 239 /\ b0 # 237 /\ cont(1, 128, 191) /\ cont(2, 128, 191) THEN 3
        ELSE IF b0 = 237 /\ cont(1, 128, 159) /\ cont(2, 128, 191) THEN 3
        ELSE IF b0 = 240 /\ cont(1, 144, 191) /\ cont(2, 128, 191) /\ cont(3, 128, 191) THEN 4
        ELSE IF b0 >= 241 /\ b0 <= 243 /\ cont(1, 128, 191) /\ cont(2, 128, 191) /\ cont(3, 128, 191) THEN 4
        ELSE IF b0 = 244 /\ cont(1, 128, 143) /\ cont(2, 128, 191) /\ cont(3, 128, 191) THEN 4
        ELSE 0

\* the character boundaries of b from position i on, {-1} added when b is malformed
RECURSIVE CharStartsFrom(_, _)
CharStartsFrom(b, i) ==
    IF i >= Len(b) THEN {Len(b)}
    ELSE IF WellFormedLen(b, i) = 0 THEN {-1}
    ELSE {i} \cup CharStartsFrom(b, i + WellFormedLen(b, i))

IsValidUtf8(b) == ~(-1 \in CharStartsFrom(b, 0))

OnCharBoundary(b, o) == o \in CharStartsFrom(b, 0)

\* start of the line holding o: just after the last raw LF or CR before o
RawLineStart(b, o) ==
    LET ends == {j \in 1..o : At(b, j - 1) = LF \/ At(b, j - 1) = CR}
    IN  IF ends = {} THEN 0 ELSE CHOOSE j \in ends : \A k \in ends : k <= j

CharsOnLine(b, o) ==
    Cardinality({i \in CharStartsFrom(b, 0) : i >= RawLineStart(b, o) /\ i < o})

\* ------------------------------------------------------------ claims C1-C4

\* C1: on ASCII text with line breaks and an offset 0..len that is not inside a
\* CRLF pair, get_lines_and_columns returns (logical line breaks before offset,
\* bytes since the end of the last break): it does not panic, it does not loop
\* beyond the buffer size, and the pair it returns is that one.
C1_ReturnsLineAndColumn ==
    (IsAsciiText(bytes) /\ offset <= Len(bytes) /\ ~BetweenCRLF(bytes, offset))
        => /\ pc # "panic"
           /\ steps <= 2 * Len(bytes)
           /\ (pc = "done" =>
                 result = <<LogicalBreaksBefore(bytes, offset),
                            offset - LineStart(bytes, offset)>>)

\* C2: for every buffer and every offset 0..len the resolver never panics,
\* never fires an assertion and never indexes outside the buffer; only
\* offset > len is fatal.
C2_PanicsOnlyPastEnd == pc = "panic" => offset > Len(bytes)

\* C3: every call with offset <= len terminates: the backward scan and the
\* forward line-break count together run at most 2 * len loop iterations.
C3_StepsBoundedByBuffer == offset <= Len(bytes) => steps <= 2 * Len(bytes)

\* C4: on valid UTF-8 with the offset on a character boundary the column is
\* the number of encoded characters between the start of the line and the
\* offset; 2-, 3- and 4-byte sequences each count one column.
C4_ColumnCountsCharacters ==
    (IsValidUtf8(bytes) /\ offset > 0 /\ OnCharBoundary(bytes, offset))
        => /\ fault # "assert_mask"
           /\ (pc = "done" => result[2] = CharsOnLine(bytes, offset))

\* ------------------------------------------------- cursor: reference notions

IsContinuation(x) == x >= 128 /\ x <= 191

\* CR immediately followed by LF at position i
IsCRLFAt(b, i) == i + 1 < Len(b) /\ At(b, i) = CR /\ At(b, i + 1) = LF

\* bytes of the encoded character at i, a CRLF pair counting as one character
UnitLen(b, i) == IF IsCRLFAt(b, i) THEN 2 ELSE WellFormedLen(b, i)

\* the positions k in 2..L whose byte is absent or not a continuation byte
BadPositions(b, i, L) ==
    {k \in 2..L : i + k - 1 >= Len(b) \/ ~IsContinuation(At(b, i + k - 1))}

FirstBad(b, i, L) == CHOOSE k \in BadPositions(b, i, L) : \A j \in BadPositions(b, i, L) : k <= j

MissingName(k, L) ==
    CASE k = 2 /\ L = 2 -> "Missing2ndOf2"
      [] k = 2 /\ L = 3 -> "Missing2ndOf3"
      [] k = 3 /\ L = 3 -> "Missing3rdOf3"
      [] k = 2 /\ L = 4 -> "Missing2ndOf4"
      [] k = 3 /\ L = 4 -> "Missing3rdOf4"
      [] k = 4 /\ L = 4 -> "Missing4thOf4"

InvalidName(k, L) ==
    CASE k = 2 /\ L = 2 -> "Invalid2ndOf2"
      [] k = 2 /\ L = 3 -> "Invalid2ndOf3"
      [] k = 3 /\ L = 3 -> "Invalid3rdOf3"
      [] k = 2 /\ L = 4 -> "Invalid2ndOf4"
      [] k = 3 /\ L = 4 -> "Invalid3rdOf4"
      [] k = 4 /\ L = 4 -> "Invalid4thOf4"

\* what a call on a lead byte of declared length L at i must report
ExpectedOutcome(b, i, L) ==
    IF BadPositions(b, i, L) = {} THEN "Ok"
    ELSE IF i + FirstBad(b, i, L) - 1 >= Len(b) THEN MissingName(FirstBad(b, i, L), L)
    ELSE InvalidName(FirstBad(b, i, L), L)

\* the last call was advance_char on a cursor that had a next byte
CharCall == op = "advance_char" /\ before < Len(slice)

\* ------------------------------------------------------------ claims C5-C10

ExaminedBytes(b, i) ==
    LET L == char_width(At(b, i))
    IN  IF L < 2 THEN 1
        ELSE IF i + FirstBad(b, i, L) - 1 >= Len(b) THEN FirstBad(b, i, L) - 1
        ELSE FirstBad(b, i, L)

\* the offending byte of a failing call is a CR directly followed by LF
OffendingIsCRLF(b, i) ==
    LET L == char_width(At(b, i))
    IN  L >= 2 /\ IsCRLFAt(b, i + FirstBad(b, i, L) - 1)

FailedCharCall == CharCall /\ ret.val # "Ok"

\* C7 as stated: after an Err the cursor stands right after the lead byte, the
\* accepted continuation bytes and the offending byte (when present), so it
\* has moved forward and is within the buffer.
C7_Original_CursorAfterExamined ==
    FailedCharCall =>
        /\ cursor = before + ExaminedBytes(slice, before)
        /\ cursor > before
        /\ cursor <= Len(slice)

\* C7 amended: as stated, except that an offending CR directly followed by LF
\* is consumed together with that LF (the continuation read is next_lfn).
C7_CursorAfterExaminedOrCRLF ==
    FailedCharCall =>
        /\ cursor = before + ExaminedBytes(slice, before)
                    + (IF OffendingIsCRLF(slice, before) THEN 1 ELSE 0)
        /\ cursor > before
        /\ cursor <= Len(slice)

C7_Witness ==
    /\ FailedCharCall
    /\ ret.val = "Invalid2ndOf3"
    /\ OffendingIsCRLF(slice, before)
    /\ cursor = before + 3

\* the classification the claim states
ClaimedWidth(x) ==
    IF x <= 127 THEN 1
    ELSE IF x <= 191 THEN 0
    ELSE IF x <= 223 THEN 2
    ELSE IF x <= 239 THEN 3
    ELSE IF x <= 247 THEN 4
    ELSE 0

\* the classification with 0xC0, 0xC1 and 0xF5-0xF7 rejected
AmendedWidth(x) ==
    IF x <= 127 THEN 1
    ELSE IF x <= 193 THEN 0
    ELSE IF x <= 223 THEN 2
    ELSE IF x <= 239 THEN 3
    ELSE IF x <= 244 THEN 4
    ELSE 0

\* advance_char behaves on its first byte as the classification W says: length
\* 0 fails at once after the one byte, length 1 succeeds, length L >= 2
\* succeeds exactly when L-1 continuation bytes follow and then consumes L bytes
BehavesAsWidth(W(_)) ==
    CharCall =>
        LET w == W(At(slice, before))
        IN  /\ (w = 0 => ret.val = "EncounteredContinuationByte" /\ cursor = before + 1)
            /\ (w = 1 => ret.val = "Ok")
            /\ (w >= 2 => /\ (ret.val = "Ok" <=> BadPositions(slice, before, w) = {})
                          /\ (ret.val = "Ok" => cursor = before + w)
                          /\ ret.val # "EncounteredContinuationByte")

\* C8 as stated: 0x00-0x7F length 1, 0x80-0xBF length 0, every byte of
\* 0xC0-0xDF length 2, 0xE0-0xEF length 3, every byte of 0xF0-0xF7 length 4,
\* 0xF8-0xFF length 0.
C8_Original_WidthClasses == BehavesAsWidth(ClaimedWidth)

\* C8 amended: as stated, except that 0xC0 and 0xC1 are length 0 (length 2 is
\* 0xC2-0xDF) and 0xF5-0xF7 are length 0 (length 4 is 0xF0-0xF4).
C8_WidthClasses == BehavesAsWidth(AmendedWidth)

C8_Witness ==
    /\ CharCall
    /\ At(slice, before) = 245
    /\ BadPositions(slice, before, 4) = {}
    /\ ret.val = "EncounteredContinuationByte"
    /\ cursor = before + 1

\* the bytes next_lfn returns when called from c until it returns None
RECURSIVE DrainLfn(_, _)
DrainLfn(s, c) ==
    IF ~next_lfn(s, c).ret.some THEN <<>>
    ELSE <<next_lfn(s, c).ret.val>> \o DrainLfn(s, next_lfn(s, c).cursor)

CountOf(q, x) == Cardinality({i \in 1..Len(q) : q[i] = x})

\* C9: next_lfn returns None without moving at end; on CR LF it returns one LF
\* and advances two bytes; on a CR not followed by LF it returns LF and
\* advances one byte; any other byte is returned unchanged, advancing one
\* byte; so it never returns CR, and draining a buffer yields one LF per
\* logical line break.
C9_NextLfnNormalizes ==
    /\ op = "next_lfn" =>
         /\ (before >= Len(slice) => ~ret.some /\ cursor = before)
         /\ (IsCRLFAt(slice, before) => ret = Some(LF) /\ cursor = before + 2)
         /\ (before < Len(slice) /\ At(slice, before) = CR /\ ~IsCRLFAt(slice, before)
               => ret = Some(LF) /\ cursor = before + 1)
         /\ (before < Len(slice) /\ At(slice, before) # CR
               => ret = Some(At(slice, before)) /\ cursor = before + 1)
         /\ ret # Some(CR)
    /\ CountOf(DrainLfn(slice, 0), LF) = LogicalBreaksBefore(slice, Len(slice))
    /\ CountOf(DrainLfn(slice, 0), CR) = 0

C9_Witness ==
    /\ op = "next_lfn"
    /\ IsCRLFAt(slice, before)
    /\ ret = Some(LF)
    /\ cursor = before + 2
    /\ slice = ExampleText

\* C10: after any sequence of checked operations start <= cursor <= end, that
\* is bytes_consumed() + bytes_remaining() is the buffer length; no call
\* moves the cursor backwards, and advance() at the end leaves it in place.
C10_CursorWithinBounds ==
    /\ 0 <= cursor
    /\ cursor <= Len(slice)
    /\ bytes_consumed(slice, cursor) + bytes_remaining(slice, cursor) = Len(slice)
    /\ before <= cursor
    /\ (op = "advance" /\ before = Len(slice) => cursor = before)

C10_Witness ==
    /\ op = "advance"
    /\ Len(slice) = MaxLen
    /\ before = Len(slice)
    /\ cursor = Len(slice)

\* ---------------------------------------------------------------- claim C11

\* the value of the size bytes at i, as base-256 digits, most significant
\* first: little-endian puts the last byte first, big-endian the first byte
DecodedDigits(b, i, size, order) ==
    [j \in 1..size |-> IF order = "le" THEN At(b, i + size - j) ELSE At(b, i + j - 1)]

NumericCall == op \in {"read_le", "read_be", "next_le", "next_be"}

\* C11: for each width and both byte orders, next_<T>_le and next_<T>_be
\* return Some(the value of the size_of(T) bytes at the cursor) and advance by
\* exactly size_of(T) when that many bytes remain, and return None without
\* moving otherwise; read_<T>_le and read_<T>_be return the same value and
\* never move the cursor.
C11_NumericReads ==
    NumericCall =>
        LET size == arg
            order == IF op \in {"read_le", "next_le"} THEN "le" ELSE "be"
            moves == op \in {"next_le", "next_be"}
        IN  IF Len(slice) - before >= size
            THEN /\ ret.some
                 /\ ret.val = DecodedDigits(slice, before, size, order)
                 /\ cursor = before + (IF moves THEN size ELSE 0)
            ELSE /\ ~ret.some
                 /\ cursor = before

====
